---- MODULE Spec2Model ----
(***************************************************************************)
(* A model of the yaz0 codec: the 16-byte header (header.rs), the packet   *)
(* stream encoder with its naive and lookahead searches (deflate.rs), the  *)
(* decoder (inflate.rs) and the progress channel of the encoder.           *)
(*                                                                         *)
(* Byte sequences are TLA+ sequences of numbers in 0..255.  The source     *)
(* indexes from 0 and TLA+ from 1: At(s, i) is the source's s[i].          *)
(***************************************************************************)
EXTENDS Integers, Sequences, FiniteSets, TLC

VARIABLES
    pc,               \* the control point of the running call
    entry,            \* which facade method the caller invoked
    src,              \* `data` / `src`: the input of the encoder
    data_len,         \* data.len(), a usize (eight base-256 digits, low first)
    level,            \* CompressionLevel: [strategy, quality]
    writer,           \* the bytes written to the sink so far
    lookback,         \* compress_lookaround: lookback
    lookahead_cache,  \* Option<Run>: <<>> is None, <<r>> is Some(r)
    read_head,        \* compress_lookaround: read_head
    encoded,          \* compress_lookaround: encoded
    codon,            \* the codon of the group being built
    packets,          \* the ArrayVec of the group being built
    packet_n,         \* the slot of the group being filled
    emitted,          \* history: one record per packet pushed, in order
    flushed,          \* history: one record per group written to `encoded`
    sent,             \* history: the read_head of every send, in order
    chan,             \* the mpsc channel: messages sent and not yet received
    received,         \* the read_head values the observer has received
    rx_alive,         \* whether the Receiver still exists
    reader,           \* the bytes behind the reader of Yaz0Archive
    reader_pos,       \* the position of the reader
    eof_hit,          \* history: a read was attempted past the end of the reader
    expected_size,    \* header.expected_size, a usize (digits, low first)
    data_start,       \* Yaz0Archive.data_start
    dest,             \* the destination buffer of decompress_into
    dest_pos,         \* decompress_into: dest_pos
    ops_left,         \* decompress_into: ops_left
    code_byte,        \* decompress_into: code_byte
    result            \* how the last call ended: none, Ok, Io, InvalidMagic, panic

vars == <<pc, entry, src, data_len, level, writer, lookback, lookahead_cache,
          read_head, encoded, codon, packets, packet_n, emitted, flushed,
          sent, chan, received, rx_alive, reader, reader_pos, eof_hit, expected_size,
          data_start, dest, dest_pos, ops_left, code_byte, result>>

(***************************************************************************)
(* Bounds of the model.                                                    *)
(***************************************************************************)
\* Every sequence over DataBytes of at most this length is an input.
MaxLen == 7
\* The length of the constant input that outgrows one packet (273 bytes).
LongRunLen == 276
\* The length of the periodic filler of the input that outgrows the window.
FillerLen == 4090
\* The period of that filler.
FillerPeriod == 200
\* The inputs compressed with a live observer are the prefixes of at most
\* this length of a sequence whose groups end on the multiples of ten.
MaxProgressLen == 21
\* The packet streams read back are the sequences over StreamBytes of at
\* most this length.
MaxStream == 5
\* The sizes their headers declare are at most this.
MaxExpect == 3
\* The buffer handed to decompress_into is at most this much longer than the
\* size the header declares.
MaxSlack == 1
\* The lengths written into a header without their data have this many low
\* digits drawn from LenDigits.
LenDigitCount == 5
\* The run one byte after the cursor is at most this long in the inputs that
\* try the lookahead rule around its threshold; at 10 the literal of the hit
\* is the 8th packet of its group.
MaxAhead == 10

(***************************************************************************)
(* Program constants.                                                      *)
(***************************************************************************)
MAX_LOOKBACK == 4096
\* 0x12: the shortest run that takes a 3-byte packet.
LongPacketMin == 18
\* 0xff: the largest value of the length byte of a 3-byte packet.
LengthByteMax == 255
\* The packets of one group.
GroupSlots == 8
\* The capacity of the packet arena, ArrayVec<[u8; 24]>.
ArenaCapacity == 24
\* The period of the progress reports: read_head % 10.
ProgressEvery == 10
\* The documented range of `quality`.
MaxQuality == 10
\* The bytes of a usize on the 64-bit targets.
UsizeBytes == 8
\* The bytes of the u32 of the header.
U32Bytes == 4
\* The bytes the header ends with.
PaddingBytes == 8

(***************************************************************************)
(* Machine arithmetic.                                                     *)
(***************************************************************************)
At(s, i) == s[i + 1]

Pow2(n) == 2 ^ n

\* x as u8
AsU8(x) == x % 256

RECURSIVE BitOr(_, _)
\* a | b
BitOr(a, b) ==
    IF a = 0 THEN b
    ELSE IF b = 0 THEN a
    ELSE (IF a % 2 = 1 \/ b % 2 = 1 THEN 1 ELSE 0) + 2 * BitOr(a \div 2, b \div 2)

RECURSIVE BitAnd(_, _)
\* a & b
BitAnd(a, b) ==
    IF a = 0 \/ b = 0 THEN 0
    ELSE (IF a % 2 = 1 /\ b % 2 = 1 THEN 1 ELSE 0) + 2 * BitAnd(a \div 2, b \div 2)

\* a >> n
Shr(a, n) == a \div Pow2(n)

\* a << n on a u8: the bits shifted out are lost
Shl8(a, n) == (a * Pow2(n)) % 256

\* cursor.saturating_sub(lookback)
saturating_sub(a, b) == IF a >= b THEN a - b ELSE 0

\* a.min(b)
Min(a, b) == IF a <= b THEN a ELSE b

Zeros(n) == [i \in 1..n |-> 0]

(***************************************************************************)
(* usize and u32 values that may not fit a number of the model checker are *)
(* kept as base-256 digits, least significant first.                       *)
(***************************************************************************)
\* A length below 2^24 as a usize.
UsizeOf(n) ==
    [i \in 1..UsizeBytes |->
        IF i = 1 THEN n % 256
        ELSE IF i = 2 THEN (n \div 256) % 256
        ELSE IF i = 3 THEN (n \div 65536) % 256
        ELSE 0]

\* The number a usize stands for; used only where it is below 2^24.
UsizeToNat(d) == d[1] + 256 * d[2] + 65536 * d[3]

UsizeIsZero(d) == \A i \in 1..UsizeBytes : d[i] = 0

\* expected_size as u32: the low four bytes are kept
AsU32(d) == SubSeq(d, 1, U32Bytes)

\* x as usize, of a u32
U32AsUsize(d) == d \o [i \in 1..(UsizeBytes - U32Bytes) |-> 0]

\* write_u32::<BigEndian>
BigEndianBytes(d) == [i \in 1..U32Bytes |-> d[U32Bytes + 1 - i]]

\* read_u32::<BigEndian>
FromBigEndian(b) == [i \in 1..U32Bytes |-> b[U32Bytes + 1 - i]]

(***************************************************************************)
(* Run and the searches (deflate.rs).                                      *)
(***************************************************************************)
Run(c, l) == [cursor |-> c, length |-> l]

Run_zero == Run(0, 0)

\* Returns `self` unless it is not longer than `other`.
swap_if_better(self, other) ==
    IF self.length > other.length THEN self ELSE other

RECURSIVE scan_run(_, _, _, _, _)
\* The while loop of find_naive_run over runlength in lo..hi-1: the first
\* runlength at which the loop stops (a differing byte), or hi when every
\* byte of the range is equal.  The range is split in two and the left half
\* is scanned first, which is the order of the loop and keeps the depth of
\* the evaluation logarithmic.
scan_run(s, search_head, cursor, lo, hi) ==
    IF hi <= lo THEN hi
    ELSE IF hi = lo + 1
    THEN IF At(s, search_head + lo) # At(s, cursor + lo) THEN lo ELSE hi
    ELSE LET mid == (lo + hi) \div 2
             left == scan_run(s, search_head, cursor, lo, mid)
         IN  IF left < mid THEN left
             ELSE scan_run(s, search_head, cursor, mid, hi)

\* The runlength the while loop ends with for one search_head.
runlength_at(s, search_head, cursor) ==
    scan_run(s, search_head, cursor, 0, Len(s) - cursor)

RECURSIVE fold_heads(_, _, _, _, _)
\* The for loop of find_naive_run over search_head in lo..hi-1, started with
\* the best run so far; the range is split in two, the left half first (the
\* test on `left` only makes the evaluation finish the left half before it
\* starts the right one).
fold_heads(s, cursor, lo, hi, run) ==
    IF hi <= lo THEN run
    ELSE IF hi = lo + 1
    THEN swap_if_better(run, Run(lo, runlength_at(s, lo, cursor)))
    ELSE LET mid == (lo + hi) \div 2
             left == fold_heads(s, cursor, lo, mid, run)
         IN  IF left.length >= 0
             THEN fold_heads(s, cursor, mid, hi, left)
             ELSE left

\* find_naive_run with a search window one byte wider than the lookback.
find_naive_run_wide(s, cursor, lb) ==
    fold_heads(s, cursor, saturating_sub(cursor, lb + 1), cursor, Run_zero)

find_naive_run(s, cursor, lb) ==
    LET search_start == saturating_sub(cursor, lb)
    IN  fold_heads(s, cursor, search_start, cursor, Run_zero)

\* find_lookahead_run that takes the run one byte on as soon as it is longer.
find_lookahead_run_eager(s, cursor, lb) ==
    LET run == find_naive_run(s, cursor, lb)
        lookahead_run == find_naive_run(s, cursor + 1, lb)
    IN  IF run.length >= 3 /\ lookahead_run.length >= run.length + 1
        THEN <<TRUE, lookahead_run>>
        ELSE <<FALSE, run>>

\* Returns <<whether a head byte must be copied first, the run>>.
find_lookahead_run(s, cursor, lb) ==
    LET run == find_naive_run(s, cursor, lb)
    IN  IF run.length >= 3
        THEN LET lookahead_run == find_naive_run(s, cursor + 1, lb)
             IN  IF lookahead_run.length >= run.length + 2
                 THEN <<TRUE, lookahead_run>>
                 ELSE <<FALSE, run>>
        ELSE <<FALSE, run>>

\* write_run: the bytes pushed and the length returned.
write_run(rh, run) ==
    LET dist == rh - run.cursor - 1
    IN  IF run.length >= LongPacketMin
        THEN LET actual_runlength == Min(run.length, LengthByteMax + LongPacketMin)
             IN  [bytes |-> <<AsU8(Shr(dist, 8)),
                              AsU8(BitAnd(dist, 255)),
                              AsU8(actual_runlength - LongPacketMin)>>,
                  length |-> actual_runlength]
        ELSE [bytes |-> <<BitOr(Shl8(AsU8(run.length) - 2, 4), AsU8(Shr(dist, 8))),
                          AsU8(BitAnd(dist, 255))>>,
              length |-> run.length]

\* MAX_LOOKBACK / (quality as f32 / 10.).floor() as usize: the divisor
lookback_divisor(quality) == quality \div 10

(***************************************************************************)
(* The inputs.                                                             *)
(***************************************************************************)
\* The bytes of the short inputs.
DataBytes == {10, 255}

ShortInputs == UNION {[1..n -> DataBytes] : n \in 0..MaxLen}

\* The inputs of the tests of deflate.rs.
TestNaive1 == <<12, 34, 56>>
TestNaive2 == <<0, 1, 2, 10, 0, 1, 2, 3, 11, 0, 1, 2, 3, 4, 5, 6, 7>>
TestLookahead == <<0, 0, 0, 10, 0, 0, 0, 0, 0, 0, 0, 0, 0, 0, 10>>
TestRun == Zeros(30)

\* One byte repeated: a run longer than one packet holds.
LongRun == Zeros(LongRunLen)

\* Seven literals and a three-byte repeat, over and over: every group ends
\* on a multiple of ten.
ProgressSrc(n) ==
    [i \in 1..n |->
        IF ((i - 1) % 10) >= 7 THEN ((i - 1) % 10) - 6
        ELSE IF i <= 3 THEN i
        ELSE (10 * (((i - 1) \div 10) + 1)) + ((i - 1) % 10) + 1]

\* 1 2 3, a gap, 5 6 7, a periodic filler, 1 2 3, 5 6 7: the second 1 2 3
\* lies 4097 bytes after the first, the second 5 6 7 lies 4096 bytes after
\* the first when the filler has 4090 bytes.  The input of the lookahead test
\* follows, in bytes that occur nowhere before.
FarSrc ==
    <<1, 2, 3, 0, 5, 6, 7>>
        \o [i \in 1..FillerLen |-> 16 + ((i - 1) % FillerPeriod)]
        \o <<1, 2, 3, 5, 6, 7>>
        \o [i \in 1..Len(TestLookahead) |-> IF TestLookahead[i] = 0 THEN 9 ELSE 8]

\* 1 2 3 255, then 2 3 .. k+1, a gap, and 1 2 3 .. k+1: at the second 1 the
\* run at the cursor has 3 bytes and the run one byte on has k.
LookaheadSrc(k) ==
    <<1, 2, 3, 255>> \o [i \in 1..k |-> i + 1] \o <<0, 1>> \o [i \in 1..k |-> i + 1]

LookaheadInputs == {LookaheadSrc(k) : k \in 2..MaxAhead}

Inputs ==
    ShortInputs \cup {TestNaive1, TestNaive2, TestLookahead, TestRun, LongRun, FarSrc}
        \cup LookaheadInputs

ProgressInputs == {ProgressSrc(n) : n \in 0..MaxProgressLen}

Strategies == {"Naive", "Lookahead"}

Levels == [strategy : Strategies, quality : 1..MaxQuality]

(***************************************************************************)
(* The header (header.rs).                                                 *)
(***************************************************************************)
\* b"Yaz0"
Magic == <<89, 97, 122, 48>>

\* A comparison that leaves out the last byte of the magic.
magic_differs_prefix(m) == SubSeq(m, 1, 3) # SubSeq(Magic, 1, 3)

\* &magic != b"Yaz0"
magic_differs(m) == m # Magic

\* Yaz0Header::write: the bytes written for a header of this expected_size.
Yaz0Header_write(size) ==
    Magic \o BigEndianBytes(AsU32(size)) \o [i \in 1..PaddingBytes |-> 0]

\* Yaz0Header::parse on the bytes r of a reader at position 0: the result,
\* the expected_size of the header and the position the reader is left at.
Yaz0Header_parse(r) ==
    IF Len(r) < Len(Magic)
    THEN [result |-> "Io", size |-> UsizeOf(0), pos |-> Len(r), eof |-> TRUE]
    ELSE IF magic_differs(SubSeq(r, 1, Len(Magic)))
    THEN [result |-> "InvalidMagic", size |-> UsizeOf(0), pos |-> Len(Magic),
          eof |-> FALSE]
    ELSE IF Len(r) < Len(Magic) + U32Bytes
    THEN [result |-> "Io", size |-> UsizeOf(0), pos |-> Len(r), eof |-> TRUE]
    ELSE [result |-> "Ok",
          size |-> U32AsUsize(FromBigEndian(SubSeq(r, Len(Magic) + 1,
                                                   Len(Magic) + U32Bytes))),
          pos |-> Len(Magic) + U32Bytes + PaddingBytes,
          eof |-> FALSE]

(***************************************************************************)
(* The writer (deflate.rs).                                                *)
(***************************************************************************)
encoder_vars == <<lookback, lookahead_cache, read_head, encoded, codon, packets,
                  packet_n, emitted, flushed>>

channel_vars == <<sent, chan, received, rx_alive>>

archive_vars == <<reader, reader_pos, eof_hit, expected_size, data_start, dest,
                  dest_pos, ops_left, code_byte>>

input_vars == <<entry, src, data_len, level>>

\* compress_and_write, compress_and_write_with_progress: the header is built
\* from data.len() and written.
WriteHeader ==
    /\ pc = "start"
    /\ writer' = writer \o Yaz0Header_write(data_len)
    /\ pc' = "compress"
    /\ UNCHANGED <<input_vars, encoder_vars, channel_vars, archive_vars, result>>

\* compress_lookaround up to its loop: the window is computed.  compress()
\* has dropped the receiver of its channel before.
CompressStart ==
    /\ pc = "compress"
    /\ IF lookback_divisor(level.quality) = 0
       THEN /\ pc' = "panicked"
            /\ result' = "panic"
            /\ UNCHANGED lookback
       ELSE /\ pc' = "outer"
            /\ lookback' = MAX_LOOKBACK \div lookback_divisor(level.quality)
            /\ UNCHANGED result
    /\ lookahead_cache' = <<>>
    /\ read_head' = 0
    /\ encoded' = <<>>
    /\ UNCHANGED <<input_vars, writer, codon, packets, packet_n, emitted, flushed,
                   channel_vars, archive_vars>>

\* A cache declared inside the outer loop: every group starts without one.
cache_per_group(cache) == <<>>

\* let mut lookahead_cache is declared before the outer loop: a group starts
\* with the cache the group before left.
cache_at_group_start(cache) == cache

\* while read_head < src.len(): a group is started, or the stream returned.
GroupStart ==
    /\ pc = "outer"
    /\ IF read_head < Len(src)
       THEN /\ codon' = 0
            /\ packets' = <<>>
            /\ packet_n' = 0
            /\ pc' = "inner"
       ELSE /\ pc' = "encoded"
            /\ UNCHANGED <<codon, packets, packet_n>>
    /\ lookahead_cache' = cache_at_group_start(lookahead_cache)
    /\ UNCHANGED <<input_vars, writer, lookback, read_head, encoded,
                   emitted, flushed, channel_vars, archive_vars, result>>

\* The search of one slot: <<hit_lookahead, best_run>>.
slot_search ==
    IF lookahead_cache # <<>>
    THEN <<FALSE, lookahead_cache[1]>>
    ELSE IF level.strategy = "Lookahead"
    THEN find_lookahead_run(src, read_head, lookback)
    ELSE <<FALSE, find_naive_run(src, read_head, lookback)>>

\* The codon marked from its lowest bit: codon |= 1 << packet_n.
mark_codon_lsb(c, n) == BitOr(c, Pow2(n))

\* codon |= 0x80 >> packet_n
mark_codon(c, n) == BitOr(c, Shr(128, n))

\* One pass of `while packet_n < 8`: a back-reference or a literal is pushed,
\* or the loop is left at the end of the input.
Slot ==
    /\ pc = "inner"
    /\ \E found \in {slot_search} :
       LET hit_lookahead == found[1]
           best_run == found[2]
           from_cache == lookahead_cache # <<>>
           next_pc == IF packet_n + 1 < GroupSlots THEN "inner" ELSE "flush"
       IN  /\ lookahead_cache' = IF hit_lookahead THEN <<best_run>> ELSE <<>>
           /\ IF best_run.length >= 3 /\ ~hit_lookahead
              THEN LET w == write_run(read_head, best_run)
                   IN  IF Len(packets) + Len(w.bytes) > ArenaCapacity
                       THEN /\ pc' = "panicked"
                            /\ result' = "panic"
                            /\ UNCHANGED <<read_head, packets, codon, packet_n, emitted>>
                       ELSE /\ read_head' = read_head + w.length
                            /\ packets' = packets \o w.bytes
                            /\ emitted' = Append(emitted,
                                   [kind |-> "ref", group |-> Len(flushed),
                                    slot |-> packet_n, at |-> read_head,
                                    run |-> best_run, n |-> w.length,
                                    cached |-> from_cache, bytes |-> w.bytes])
                            /\ packet_n' = packet_n + 1
                            /\ pc' = next_pc
                            /\ UNCHANGED <<codon, result>>
              ELSE IF read_head >= Len(src)
              THEN /\ pc' = "flush"
                   /\ UNCHANGED <<read_head, packets, codon, packet_n, emitted, result>>
              ELSE /\ packets' = Append(packets, At(src, read_head))
                   /\ codon' = mark_codon(codon, packet_n)
                   /\ read_head' = read_head + 1
                   /\ emitted' = Append(emitted,
                          [kind |-> "lit", group |-> Len(flushed),
                           slot |-> packet_n, at |-> read_head,
                           run |-> best_run, n |-> 1,
                           cached |-> hit_lookahead,
                           bytes |-> <<At(src, read_head)>>])
                   /\ packet_n' = packet_n + 1
                   /\ pc' = next_pc
                   /\ UNCHANGED result
    /\ UNCHANGED <<input_vars, writer, lookback, encoded, flushed, channel_vars,
                   archive_vars>>

\* if read_head % 10 == 0 || read_head == src.len() - 1
progress_due(rh, n) == rh % ProgressEvery = 0 \/ rh = n - 1

\* A message that reports the bytes left instead of the bytes read.
progress_msg_remaining(rh, n) == n - rh

\* ProgressMsg { read_head }
progress_msg(rh, n) == rh

\* progress_tx.send(..): the channel is unbounded, so a send never waits; it
\* is Ok while the receiver lives and an error once it is dropped.
send_result(alive) == IF alive THEN "Ok" ELSE "Err"

\* The result of the send unwrapped: an error stops the encoder.
unwrap_send(res) == IF res = "Err" THEN "panic" ELSE "continue"

\* let _ = progress_tx.send(..): the result of the send is discarded.
ignore_send(res) == "continue"

\* The group is written into the stream and the progress is reported; the
\* error of a send to a dropped receiver is ignored.
Flush ==
    /\ pc = "flush"
    /\ encoded' = encoded \o <<codon>> \o packets
    /\ flushed' = Append(flushed, [codon |-> codon, bytes |-> packets])
    /\ sent' = IF progress_due(read_head, Len(src))
               THEN Append(sent, progress_msg(read_head, Len(src)))
               ELSE sent
    /\ chan' = IF progress_due(read_head, Len(src)) /\ rx_alive
               THEN Append(chan, progress_msg(read_head, Len(src)))
               ELSE chan
    /\ IF progress_due(read_head, Len(src))
            /\ ignore_send(send_result(rx_alive)) = "panic"
       THEN /\ pc' = "panicked"
            /\ result' = "panic"
       ELSE /\ pc' = "outer"
            /\ UNCHANGED result
    /\ UNCHANGED <<input_vars, writer, lookback, lookahead_cache, read_head, codon,
                   packets, packet_n, emitted, received, rx_alive, archive_vars>>

\* One pass of the inner loop of compress_lookaround as a function of its
\* locals: the locals after the pass, `stop` when the loop is left.
slot_pass(s, lvl, lb, rh, cache, n, c, ps) ==
    LET found == IF cache # <<>> THEN <<FALSE, cache[1]>>
                 ELSE IF lvl.strategy = "Lookahead"
                 THEN find_lookahead_run(s, rh, lb)
                 ELSE <<FALSE, find_naive_run(s, rh, lb)>>
        hit_lookahead == found[1]
        best_run == found[2]
        next_cache == IF hit_lookahead THEN <<best_run>> ELSE <<>>
    IN  IF best_run.length >= 3 /\ ~hit_lookahead
        THEN LET w == write_run(rh, best_run)
             IN  [read_head |-> rh + w.length, cache |-> next_cache, codon |-> c,
                  packets |-> ps \o w.bytes, packet_n |-> n + 1, stop |-> FALSE]
        ELSE IF rh >= Len(s)
        THEN [read_head |-> rh, cache |-> next_cache, codon |-> c,
              packets |-> ps, packet_n |-> n, stop |-> TRUE]
        ELSE [read_head |-> rh + 1, cache |-> next_cache,
              codon |-> mark_codon(c, n), packets |-> Append(ps, At(s, rh)),
              packet_n |-> n + 1, stop |-> FALSE]

RECURSIVE group_pass(_, _, _, _, _, _, _, _)
\* while packet_n < 8 { .. }: the locals when the group is complete.
group_pass(s, lvl, lb, rh, cache, n, c, ps) ==
    IF n >= GroupSlots
    THEN [read_head |-> rh, cache |-> cache, codon |-> c, packets |-> ps]
    ELSE LET r == slot_pass(s, lvl, lb, rh, cache, n, c, ps)
         IN  IF r.stop
             THEN [read_head |-> r.read_head, cache |-> r.cache,
                   codon |-> r.codon, packets |-> r.packets]
             ELSE group_pass(s, lvl, lb, r.read_head, r.cache, r.packet_n,
                             r.codon, r.packets)

RECURSIVE compress_loop(_, _, _, _, _)
\* while read_head < src.len() { .. }: the bytes pushed from read_head on;
\* what the sends return is not looked at.
compress_loop(s, lvl, lb, rh, cache) ==
    IF rh >= Len(s) THEN <<>>
    ELSE LET g == group_pass(s, lvl, lb, rh, cache, 0, 0, <<>>)
         IN  (<<g.codon>> \o g.packets)
                 \o compress_loop(s, lvl, lb, g.read_head, g.cache)

\* compress(data, level): the receiver is dropped before the encoder runs.
compress(s, lvl) ==
    compress_loop(s, lvl, MAX_LOOKBACK \div lookback_divisor(lvl.quality), 0, <<>>)

\* writer.write_all(&compressed) and Ok(()).
WriteAll ==
    /\ pc = "encoded"
    /\ writer' = writer \o encoded
    /\ result' = "Ok"
    /\ pc' = IF entry = "compress_and_write" THEN "open" ELSE "written"
    /\ UNCHANGED <<input_vars, encoder_vars, channel_vars, archive_vars>>

\* compress() and write_all for an input of which only the length is
\* modelled: the packet stream that follows the header is not represented.
CompressOpaque ==
    /\ pc = "compress"
    /\ result' = "Ok"
    /\ pc' = "open"
    /\ UNCHANGED <<input_vars, writer, encoder_vars, channel_vars, archive_vars>>

\* The observer takes the next message of the channel.
ObserverRecv ==
    /\ rx_alive
    /\ chan # <<>>
    /\ received' = Append(received, Head(chan))
    /\ chan' = Tail(chan)
    /\ UNCHANGED <<pc, input_vars, writer, encoder_vars, sent, rx_alive, archive_vars,
                   result>>

\* The observer drops its receiver; what the channel holds is lost.
ObserverDrop ==
    /\ rx_alive
    /\ rx_alive' = FALSE
    /\ chan' = <<>>
    /\ UNCHANGED <<pc, input_vars, writer, encoder_vars, sent, received, archive_vars,
                   result>>

(***************************************************************************)
(* The archive (inflate.rs).                                               *)
(***************************************************************************)
\* A read that yields a zero byte past the end instead of an error.
read_u8_padded(r, p) ==
    IF p < Len(r) THEN [ok |-> TRUE, byte |-> At(r, p)]
    ELSE [ok |-> TRUE, byte |-> 0]

\* read_u8 at position p of the bytes r: a short read is an error.
read_u8(r, p) ==
    IF p < Len(r) THEN [ok |-> TRUE, byte |-> At(r, p)]
    ELSE [ok |-> FALSE, byte |-> 0]

\* Yaz0Archive::new on a reader over the bytes written: the header is parsed
\* and the position after it recorded.
ArchiveNew ==
    /\ pc = "open"
    /\ reader' = writer
    /\ \E h \in {Yaz0Header_parse(writer)} :
           /\ reader_pos' = h.pos
           /\ eof_hit' = h.eof
           /\ IF h.result = "Ok"
              THEN /\ expected_size' = h.size
                   /\ data_start' = h.pos
                   /\ pc' = "archive"
                   /\ UNCHANGED result
              ELSE /\ result' = h.result
                   /\ pc' = "done"
                   /\ UNCHANGED <<expected_size, data_start>>
    /\ UNCHANGED <<input_vars, writer, encoder_vars, channel_vars, dest, dest_pos,
                   ops_left, code_byte>>

\* decompress: a buffer of expected_size zero bytes is made and handed to
\* decompress_into, whose assertion holds and whose locals are set.
Decompress ==
    /\ pc = "archive"
    /\ dest' = Zeros(UsizeToNat(expected_size))
    /\ dest_pos' = 0
    /\ ops_left' = 0
    /\ code_byte' = 0
    /\ result' = "none"
    /\ pc' = "decode"
    /\ UNCHANGED <<input_vars, writer, encoder_vars, channel_vars, reader, reader_pos,
                   eof_hit, expected_size, data_start>>

\* The byte the caller's buffer holds where decompress_into has not written.
CallerFill == 238

\* decompress_into on a buffer of the caller's: the assertion on its length,
\* then the locals.
DecompressInto ==
    /\ pc = "archive"
    /\ \E n \in 0..(UsizeToNat(expected_size) + MaxSlack) :
         /\ dest' = [i \in 1..n |-> CallerFill]
         /\ IF n >= UsizeToNat(expected_size)
            THEN /\ pc' = "decode"
                 /\ result' = "none"
            ELSE /\ pc' = "done"
                 /\ result' = "panic"
    /\ dest_pos' = 0
    /\ ops_left' = 0
    /\ code_byte' = 0
    /\ UNCHANGED <<input_vars, writer, encoder_vars, channel_vars, reader, reader_pos,
                   eof_hit, expected_size, data_start>>

RECURSIVE copy_run(_, _, _, _, _)
\* for i in lo..hi { dest[dest_pos] = dest[run_base + i]; dest_pos += 1 }, one
\* byte at a time, where pos is dest_pos before the loop; the range is split
\* in two, the left half first (the test on `left` only makes the evaluation
\* finish the left half before it starts the right one).
copy_run(d, pos, run_base, lo, hi) ==
    IF hi <= lo THEN d
    ELSE IF hi = lo + 1
    THEN [d EXCEPT ![pos + lo + 1] = d[run_base + lo + 1]]
    ELSE LET mid == (lo + hi) \div 2
             left == copy_run(d, pos, run_base, lo, mid)
         IN  IF Len(left) >= 0
             THEN copy_run(left, pos, run_base, mid, hi)
             ELSE left

\* One pass of the loop of decompress_into.  overflow_checks says whether the
\* build panics on an arithmetic overflow (debug) or wraps (release).  `pos`
\* is the position the reader is left at and `want` the end of the last byte
\* the pass asked the reader for.
decode_pass(overflow_checks) ==
    LET here == [status |-> "next", dest |-> dest, dest_pos |-> dest_pos,
                 pos |-> reader_pos, want |-> reader_pos,
                 code_byte |-> code_byte, ops_left |-> ops_left]
        short(p) == [here EXCEPT !.status = "Io", !.pos = p, !.want = p + 1]
        panic(d, dp, p) == [here EXCEPT !.status = "panic", !.dest = d,
                                        !.dest_pos = dp, !.pos = p, !.want = p]
        code == read_u8(reader, reader_pos)
        cb == IF ops_left = 0 THEN code.byte ELSE code_byte
        ol == IF ops_left = 0 THEN 8 ELSE ops_left
        p1 == IF ops_left = 0 THEN reader_pos + 1 ELSE reader_pos
        done(d, dp, p) == [status |-> "next", dest |-> d, dest_pos |-> dp, pos |-> p,
                           want |-> p, code_byte |-> Shl8(cb, 1), ops_left |-> ol - 1]
        lit == read_u8(reader, p1)
        byte1 == read_u8(reader, p1)
        byte2 == read_u8(reader, p1 + 1)
        byte3 == read_u8(reader, p1 + 2)
        dist == BitOr(BitAnd(byte1.byte, 15) * 256, byte2.byte)
        run_base == dest_pos - (dist + 1)
        long == Shr(byte1.byte, 4) = 0
        copy_len == IF long THEN byte3.byte + LongPacketMin
                    ELSE Shr(byte1.byte, 4) + 2
        p2 == IF long THEN p1 + 3 ELSE p1 + 2
        room == Len(dest) - dest_pos
    IN  IF ops_left = 0 /\ ~code.ok THEN short(reader_pos)
        ELSE IF BitAnd(cb, 128) # 0
        THEN IF ~lit.ok THEN short(p1)
             ELSE done([dest EXCEPT ![dest_pos + 1] = lit.byte], dest_pos + 1, p1 + 1)
        ELSE IF ~byte1.ok THEN short(p1)
        ELSE IF ~byte2.ok THEN short(p1 + 1)
        ELSE IF run_base < 0 /\ overflow_checks THEN panic(dest, dest_pos, p1 + 2)
        ELSE IF long /\ ~byte3.ok THEN short(p1 + 2)
        ELSE IF run_base < 0 THEN panic(dest, dest_pos, p2)
        ELSE IF copy_len > room
        THEN panic(copy_run(dest, dest_pos, run_base, 0, room), dest_pos + room, p2)
        ELSE done(copy_run(dest, dest_pos, run_base, 0, copy_len),
                  dest_pos + copy_len, p2)

\* while dest_pos < expected_size: one packet is decoded.
DecodeStep ==
    /\ pc = "decode"
    /\ dest_pos < UsizeToNat(expected_size)
    /\ \E overflow_checks \in BOOLEAN :
         \E r \in {decode_pass(overflow_checks)} :
             /\ dest' = r.dest
             /\ dest_pos' = r.dest_pos
             /\ reader_pos' = r.pos
             /\ code_byte' = r.code_byte
             /\ ops_left' = r.ops_left
             /\ eof_hit' = (eof_hit \/ r.want > Len(reader))
             /\ IF r.status = "next"
                THEN UNCHANGED <<pc, result>>
                ELSE /\ pc' = "done"
                     /\ result' = r.status
    /\ UNCHANGED <<input_vars, writer, encoder_vars, channel_vars, reader,
                   expected_size, data_start>>

\* The loop is left and Ok(()) returned.
DecodeReturn ==
    /\ pc = "decode"
    /\ ~(dest_pos < UsizeToNat(expected_size))
    /\ result' = "Ok"
    /\ pc' = "done"
    /\ UNCHANGED <<input_vars, writer, encoder_vars, channel_vars, archive_vars>>

(***************************************************************************)
(* The round trip of an input through the writer and the archive.          *)
(***************************************************************************)
InitCommon ==
    /\ lookback = 0
    /\ lookahead_cache = <<>>
    /\ read_head = 0
    /\ encoded = <<>>
    /\ codon = 0
    /\ packets = <<>>
    /\ packet_n = 0
    /\ emitted = <<>>
    /\ flushed = <<>>
    /\ sent = <<>>
    /\ chan = <<>>
    /\ received = <<>>
    /\ rx_alive = (entry = "compress_and_write_with_progress")
    /\ reader = <<>>
    /\ reader_pos = 0
    /\ eof_hit = FALSE
    /\ expected_size = UsizeOf(0)
    /\ data_start = 0
    /\ dest = <<>>
    /\ dest_pos = 0
    /\ ops_left = 0
    /\ code_byte = 0
    /\ result = "none"

Init ==
    /\ \/ /\ entry = "compress_and_write"
          /\ src \in Inputs \cup ProgressInputs
       \/ /\ entry = "compress_and_write_with_progress"
          /\ src \in ProgressInputs
    /\ level \in Levels
    /\ InitCommon
    /\ pc = "start"
    /\ data_len = UsizeOf(Len(src))
    /\ writer = <<>>

Next ==
    \/ WriteHeader
    \/ CompressStart
    \/ GroupStart
    \/ Slot
    \/ Flush
    \/ WriteAll
    \/ ObserverRecv
    \/ ObserverDrop
    \/ ArchiveNew
    \/ Decompress
    \/ DecodeStep
    \/ DecodeReturn

Spec == Init /\ [][Next]_vars

(***************************************************************************)
(* Reading archives that this writer need not have written.                *)
(***************************************************************************)
\* The bytes of the packet streams: a codon of back-references, a distance,
\* the first byte of a three-byte back-reference, a codon whose first packet
\* is a literal.
StreamBytes == {0, 1, 16, 128}

Streams == UNION {[1..n -> StreamBytes] : n \in 0..MaxStream}

\* A header cut short anywhere.
CutHeaders ==
    {SubSeq(Yaz0Header_write(UsizeOf(2)), 1, n) : n \in 0..(Len(Magic) + U32Bytes + PaddingBytes)}

\* b"Foo0" and every magic that differs from b"Yaz0" in one byte.
BadMagics ==
    ({<<70, 111, 111, 48>>}
        \cup {[Magic EXCEPT ![i] = b] : i \in 1..Len(Magic), b \in {0, 48, 89, 121}})
        \ {Magic}

\* A header that need not come from Yaz0Header::write: any of these magics,
\* size fields and paddings.
LooseHeaders ==
    {m \o sz \o [i \in 1..PaddingBytes |-> pad] :
        m \in BadMagics \cup {Magic},
        sz \in {<<0, 0, 0, 0>>, <<0, 0, 0, 2>>, <<0, 204, 7, 201>>},
        pad \in {0, 255}}

\* The headers whose size can be decoded here: a bad magic, or a small size.
Archives ==
    (CutHeaders
        \cup {h \in LooseHeaders : SubSeq(h, 1, Len(Magic)) # Magic \/ h[Len(Magic) + 2] = 0})
        \cup {Yaz0Header_write(UsizeOf(n)) \o st : n \in 0..MaxExpect, st \in Streams}

InitRead ==
    /\ entry = "archive"
    /\ src = <<>>
    /\ level = [strategy |-> "Naive", quality |-> MaxQuality]
    /\ InitCommon
    /\ pc = "open"
    /\ data_len = UsizeOf(0)
    /\ writer \in Archives

NextRead ==
    \/ ArchiveNew
    \/ Decompress
    \/ DecompressInto
    \/ DecodeStep
    \/ DecodeReturn

SpecRead == InitRead /\ [][NextRead]_vars

(***************************************************************************)
(* Inputs too long to write down: the data is given by its length alone.   *)
(***************************************************************************)
LenDigits == {0, 1, 255}

LenSamples ==
    {[i \in 1..UsizeBytes |-> IF i <= LenDigitCount THEN d[i] ELSE 0] :
        d \in [1..LenDigitCount -> LenDigits]}

InitLen ==
    /\ entry = "compress_and_write"
    /\ src = <<>>
    /\ level = [strategy |-> "Lookahead", quality |-> MaxQuality]
    /\ InitCommon
    /\ pc = "start"
    /\ writer = <<>>
    /\ data_len \in LenSamples

\* decompress, where the header declares no byte: the loop reads nothing.
DecompressEmpty ==
    /\ UsizeIsZero(expected_size)
    /\ Decompress

NextLen ==
    \/ WriteHeader
    \/ CompressOpaque
    \/ ArchiveNew
    \/ DecompressEmpty
    \/ DecodeReturn

SpecLen == InitLen /\ [][NextLen]_vars

(***************************************************************************)
(* The claims.                                                             *)
(***************************************************************************)
\* The packets of group g (counted from 0), in the order they were pushed.
PacketsOf(g) == SelectSeq(emitted, LAMBDA e : e.group = g)

RECURSIVE Flatten(_)
Flatten(ss) == IF ss = <<>> THEN <<>> ELSE Head(ss) \o Flatten(Tail(ss))

\* The distance field and the length a back-reference packet encodes, read
\* the way decompress_into reads them.
FieldDist(bytes) == (bytes[1] % 16) * 256 + bytes[2]

FieldLength(bytes) ==
    IF bytes[1] \div 16 = 0 THEN bytes[3] + LongPacketMin ELSE (bytes[1] \div 16) + 2

\* C1: for every input, every quality in 1..10 and both strategies, what
\* compress_and_write wrote decodes, with the size of the header, to the
\* input: every run of the writer and the archive ends Ok with dest = src.
C1_RoundTrip ==
    (entry = "compress_and_write" /\ pc \in {"done", "panicked"})
        => (result = "Ok" /\ dest = src)

\* The round trip at quality 10, where the window is not divided by zero.
RoundTripAtFullWindow ==
    (entry = "compress_and_write" /\ level.quality = MaxQuality
        /\ pc \in {"done", "panicked"})
        => (result = "Ok" /\ dest = src)

\* C2: through the facade at quality 10, decompress() of what
\* compress_and_write wrote returns Ok with a buffer equal to the data, for
\* every data; here the buffer returned has the length of the data.
C2_FacadeRoundTrip ==
    (entry = "compress_and_write" /\ level.quality = MaxQuality /\ pc = "done")
        => (result = "Ok" /\ UsizeOf(Len(dest)) = data_len)

\* C3: every back-reference the encoder pushes, from a search or from the
\* lookahead cache, is well formed when write_run is called: its distance
\* field read_head - run.cursor - 1 is in 0..4095 and is what the packet
\* holds, distance + 1 is at most the bytes consumed, and the length the
\* packet encodes is in 3..273 and at most the bytes left at read_head.
C3_BackrefWellFormed ==
    \A k \in 1..Len(emitted) :
        LET e == emitted[k]
            dist == e.at - e.run.cursor - 1
        IN  e.kind = "ref" =>
                /\ 0 <= dist /\ dist <= MAX_LOOKBACK - 1
                /\ FieldDist(e.bytes) = dist
                /\ dist + 1 <= e.at
                /\ 3 <= e.n /\ e.n <= LengthByteMax + LongPacketMin
                /\ FieldLength(e.bytes) = e.n
                /\ e.n <= Len(src) - e.at

\* A back-reference at the far edge of the window, one of the longest
\* length, and one taken from the lookahead cache have been pushed.
C3_Witness ==
    /\ \E k \in 1..Len(emitted) :
           /\ emitted[k].kind = "ref"
           /\ emitted[k].at - emitted[k].run.cursor - 1 = MAX_LOOKBACK - 1
    /\ \E k \in 1..Len(emitted) :
           /\ emitted[k].kind = "ref"
           /\ emitted[k].n = LengthByteMax + LongPacketMin
           /\ emitted[k].n < emitted[k].run.length
    /\ \E k \in 1..Len(emitted) :
           /\ emitted[k].kind = "ref"
           /\ emitted[k].cached

\* C4: the stream is a sequence of groups, each a codon byte followed by the
\* bytes of 1 to 8 packets (at most 24 bytes); bit 0x80 >> i of the codon is
\* set exactly when packet i of the group is a literal, so the bits of the
\* slots the last group leaves unused are 0.
C4_GroupFraming ==
    /\ encoded = Flatten([g \in 1..Len(flushed) |->
                              <<flushed[g].codon>> \o flushed[g].bytes])
    /\ \A g \in 1..Len(flushed) :
           LET ps == PacketsOf(g - 1)
           IN  /\ 1 <= Len(ps) /\ Len(ps) <= GroupSlots
               /\ Len(flushed[g].bytes) <= ArenaCapacity
               /\ flushed[g].bytes = Flatten([i \in 1..Len(ps) |-> ps[i].bytes])
               /\ \A i \in 0..(GroupSlots - 1) :
                      ((flushed[g].codon \div Pow2(7 - i)) % 2 = 1)
                          <=> (i < Len(ps) /\ ps[i + 1].kind = "lit")

\* The encoder has returned a stream whose first group is full and holds
\* literals and back-references, and whose last group leaves slots unused.
C4_Witness ==
    /\ pc = "encoded"
    /\ Len(flushed) >= 2
    /\ LET ps == PacketsOf(0)
       IN  /\ Len(ps) = GroupSlots
           /\ \E i \in 1..Len(ps) : ps[i].kind = "lit"
           /\ \E i \in 1..Len(ps) : ps[i].kind = "ref"
    /\ Len(PacketsOf(Len(flushed) - 1)) < GroupSlots

\* C5: the archive compress_and_write wrote begins with "Yaz0", the size of
\* the data as a big-endian u32 and eight zero bytes, and parsing it yields
\* exactly the length of the data, the reader left at offset 16.
C5_HeaderSizeFidelity ==
    (entry = "compress_and_write" /\ pc = "archive")
        => /\ SubSeq(writer, 1, Len(Magic)) = Magic
           /\ \A i \in 1..PaddingBytes : writer[Len(Magic) + U32Bytes + i] = 0
           /\ expected_size = data_len
           /\ reader_pos = Len(Magic) + U32Bytes + PaddingBytes

\* C6: once the header is parsed, the result is InvalidMagic exactly when
\* the reader has four bytes and they are not "Yaz0", and then the size
\* field has not been read.
C6_InvalidMagicIff ==
    pc # "open" =>
        /\ (result = "InvalidMagic")
               <=> (Len(writer) >= Len(Magic) /\ SubSeq(writer, 1, Len(Magic)) # Magic)
        /\ result = "InvalidMagic" => reader_pos = Len(Magic)

\* A magic that differs from "Yaz0" in its last byte alone has been rejected.
C6_Witness ==
    /\ result = "InvalidMagic"
    /\ SubSeq(writer, 1, 3) = SubSeq(Magic, 1, 3)
    /\ Len(writer) = Len(Magic) + U32Bytes + PaddingBytes

\* C7: whenever decompress_into returns Ok, dest_pos is exactly the size the
\* header declares.
C7_EmittedEqualsDeclared ==
    (entry = "archive" /\ pc = "done" /\ result = "Ok")
        => dest_pos = UsizeToNat(expected_size)

\* C8: when the reader is asked for a byte past its end, the call returns
\* Err(Io); and no call returns Ok before expected_size bytes are produced.
C8_ShortReadIsIo ==
    /\ eof_hit => (pc = "done" /\ result = "Io")
    /\ (pc = "done" /\ result = "Ok") => dest_pos >= UsizeToNat(expected_size)

\* The stream ended at the third byte of a three-byte back-reference, after
\* a literal was produced.
C8_Witness ==
    /\ eof_hit
    /\ result = "Io"
    /\ dest_pos = 1
    /\ reader_pos = Len(reader)
    /\ reader_pos = data_start + 4
    /\ At(reader, data_start + 2) = 0

\* C9: the read_head values of the messages, in the order the observer
\* receives them, never decrease and none is more than the input's length.
C9_ProgressMonotone ==
    LET msgs == received \o chan
    IN  /\ \A i \in 1..Len(msgs) : msgs[i] <= Len(src)
        /\ \A i \in 1..(Len(msgs) - 1) : msgs[i] <= msgs[i + 1]

\* The observer has received two messages.
C9_Witness ==
    /\ Len(received) >= 2
    /\ received[1] < received[2]

\* C10: when the encoder has returned from a non-empty input, a message with
\* read_head = |input| has been sent.
C10_FinalReport ==
    (pc \in {"encoded", "written", "open"} /\ src # <<>>)
        => \E i \in 1..Len(sent) : sent[i] = Len(src)

\* C11: the encoder does not depend on its observer.  It stops only where the
\* window is divided by zero, never at a send; a flush is always possible,
\* whatever the channel holds; the stream returned is the one compress()
\* returns with its receiver dropped, and both entry points write the header
\* followed by that stream.
C11_ObserverIndependent ==
    /\ pc = "panicked" => lookback_divisor(level.quality) = 0
    /\ pc = "flush" => ENABLED Flush
    /\ pc = "encoded" => encoded = compress(src, level)
    /\ (pc \in {"written", "open"} /\ result = "Ok")
           => writer = Yaz0Header_write(data_len) \o encoded

\* The observer received a message and dropped its receiver, a message the
\* encoder sent never arrived, and the encoder returned and wrote its stream.
C11_Witness ==
    /\ entry = "compress_and_write_with_progress"
    /\ pc = "written"
    /\ ~rx_alive
    /\ Len(received) >= 1
    /\ Len(sent) > Len(received)
    /\ encoded = compress(src, level)

\* The search heads of find_naive_run at a cursor, and the longest count of
\* equal bytes that any of them gives.
SearchHeads(cursor) == saturating_sub(cursor, lookback)..(cursor - 1)

LongestAt(cursor) ==
    LET lens == {runlength_at(src, h, cursor) : h \in SearchHeads(cursor)}
    IN  CHOOSE l \in lens : \A m \in lens : m <= l

\* The run of the packet pushed last has the longest length of its window,
\* and starts at the last search head that gives that length (on the inputs
\* short enough to search a second time).
NaiveRunLongestLatest ==
    (level.strategy = "Naive" /\ emitted # <<>> /\ Len(src) <= LongRunLen) =>
        LET e == emitted[Len(emitted)]
        IN  SearchHeads(e.at) # {} =>
                /\ e.run.length = LongestAt(e.at)
                /\ \A h \in SearchHeads(e.at) :
                       runlength_at(src, h, e.at) = e.run.length => h <= e.run.cursor

\* C12: the run find_naive_run returned for the packet pushed last has the
\* longest length over the search heads of its window, and among the heads
\* that give that length it starts at the earliest.
C12_NaiveRunEarliestLongest ==
    (level.strategy = "Naive" /\ emitted # <<>>) =>
        LET e == emitted[Len(emitted)]
        IN  SearchHeads(e.at) # {} =>
                /\ e.run.length = LongestAt(e.at)
                /\ \A h \in SearchHeads(e.at) :
                       runlength_at(src, h, e.at) = e.run.length => e.run.cursor <= h

\* C13: in Lookahead mode, the packet pushed last at a slot whose cache was
\* empty is a literal that adopts the run found one byte on exactly when the
\* naive run at the cursor has length >= 3 and the naive run one byte on is
\* at least 2 longer; otherwise it is a back-reference to the run at the
\* cursor when that run has length >= 3, and a plain literal when it has not.
C13_LookaheadRule ==
    (level.strategy = "Lookahead" /\ emitted # <<>> /\ pc \in {"inner", "flush"}) =>
        LET e == emitted[Len(emitted)]
            here == find_naive_run(src, e.at, lookback)
            ahead == find_naive_run(src, e.at + 1, lookback)
            hit == here.length >= 3 /\ ahead.length >= here.length + 2
        IN  /\ (e.kind = "lit" /\ e.cached) =>
                   /\ hit
                   /\ e.bytes = <<At(src, e.at)>>
                   /\ lookahead_cache = <<ahead>>
            /\ (e.kind = "lit" /\ ~e.cached) =>
                   /\ ~hit
                   /\ here.length < 3
                   /\ e.bytes = <<At(src, e.at)>>
                   /\ lookahead_cache = <<>>
            /\ (e.kind = "ref" /\ ~e.cached) =>
                   /\ ~hit
                   /\ here.length >= 3
                   /\ e.run = here
                   /\ e.bytes = write_run(e.at, here).bytes

\* A literal was pushed because the run one byte on is exactly 2 longer
\* than the run of 3 bytes or more at the cursor.
C13_Witness ==
    /\ level.strategy = "Lookahead"
    /\ pc = "inner"
    /\ emitted # <<>>
    /\ LET e == emitted[Len(emitted)]
       IN  /\ e.kind = "lit"
           /\ e.cached
           /\ find_naive_run(src, e.at, lookback).length >= 3
           /\ lookahead_cache # <<>>
           /\ lookahead_cache[1].length
                  = find_naive_run(src, e.at, lookback).length + 2

\* C14: a literal pushed on a lookahead hit at c is followed at once by a
\* back-reference that encodes the cached run found at c + 1, in the same
\* group or as the first packet of the next one; no other packet comes from
\* the cache; the cache holds a run only between that literal and that
\* back-reference, and is empty when the encoder returns.
C14_CacheProtocol ==
    /\ \A k \in 1..Len(emitted) :
           LET e == emitted[k]
           IN  /\ (e.kind = "lit" /\ e.cached /\ k < Len(emitted)) =>
                      LET f == emitted[k + 1]
                      IN  /\ f.kind = "ref"
                          /\ f.cached
                          /\ f.at = e.at + 1
                          /\ f.run = e.run
                          /\ f.bytes = write_run(e.at + 1, e.run).bytes
                          /\ \/ f.group = e.group /\ f.slot = e.slot + 1
                             \/ /\ f.group = e.group + 1
                                /\ e.slot = GroupSlots - 1
                                /\ f.slot = 0
               /\ (e.kind = "lit" /\ e.cached /\ k = Len(emitted)) =>
                      /\ lookahead_cache = <<e.run>>
                      /\ pc \in {"inner", "flush", "outer"}
               /\ (e.kind = "ref" /\ e.cached) =>
                      /\ k > 1
                      /\ emitted[k - 1].kind = "lit"
                      /\ emitted[k - 1].cached
    /\ lookahead_cache # <<>> =>
           /\ emitted # <<>>
           /\ emitted[Len(emitted)].kind = "lit"
           /\ emitted[Len(emitted)].cached
    /\ pc \in {"encoded", "written", "open"} => lookahead_cache = <<>>

\* A lookahead literal filled the 8th slot of a group, the cached run was
\* pushed as the first packet of the next group, and the encoder returned.
C14_Witness ==
    /\ pc = "encoded"
    /\ \E k \in 1..(Len(emitted) - 1) :
           /\ emitted[k].kind = "lit"
           /\ emitted[k].cached
           /\ emitted[k].slot = GroupSlots - 1
           /\ emitted[k + 1].kind = "ref"
           /\ emitted[k + 1].cached
           /\ emitted[k + 1].slot = 0
           /\ emitted[k + 1].group = emitted[k].group + 1

====
